---- MODULE Spec2Model ----
(***************************************************************************)
(* voik commit log: CommitLog -> Segment -> {Log, Index}.                  *)
(* The memory mappings are modelled as byte sequences (1-based in TLA+,    *)
(* 0-based cursors as in the source), results as records with an ok flag.  *)
(***************************************************************************)
EXTENDS Integers, Sequences, FiniteSets, TLC

\* Amount of bytes for each entry on the index
ENTRY_SIZE == 20

\* ---- bounds of the model ----
\* successful CommitLog.write calls per behaviour
MaxWrites == 3
\* record indexes probed by point reads are 0..MaxRecordIndex
MaxRecordIndex == 2

\* payload bytes: the zero byte of an untouched mapping and one other value
Byte == {0, 1}
\* segment_size arguments of CommitLog::new
SegmentSizes == {1, 2}
\* index_size arguments of CommitLog::new: one entry exactly, two entries
\* exactly, two entries and a 5 byte remainder
IndexSizes == {ENTRY_SIZE, 2 * ENTRY_SIZE, 2 * ENTRY_SIZE + 5}
\* payloads go one byte beyond the largest segment_size
MaxPayloadLen == (CHOOSE n \in SegmentSizes : \A m \in SegmentSizes : m <= n) + 1
Payloads == UNION {[1..n -> Byte] : n \in 0..MaxPayloadLen}

VARIABLES
    segments,         \* CommitLog.segments
    segment_size,     \* CommitLog.segment_size
    index_size,       \* CommitLog.index_size
    current_segment,  \* CommitLog.current_segment
    written,          \* history: the successful writes and the address each got
    last,             \* history: the last call and what it returned
    scan,             \* the sequential read loop of the drivers and the test
    reopened          \* history: the files were left by an earlier handle

vars == <<segments, segment_size, index_size, current_segment, written, last, scan,
         reopened>>

\* ---------------------------------------------------------------------------
\* helpers on byte sequences

Min(a, b) == IF a < b THEN a ELSE b

\* File::set_len: truncate or extend with zero bytes
SetLen(content, n) == [i \in 1..n |-> IF i <= Len(content) THEN content[i] ELSE 0]

\* (&mut mmap[start..start+len]).write(bytes): copies min(len, |bytes|) bytes
SliceWrite(mmap, start, len, bytes) ==
    [i \in 1..Len(mmap) |->
        IF i > start /\ i <= start + Min(len, Len(bytes)) THEN bytes[i - start] ELSE mmap[i]]

\* &mmap[from..to]
Slice(mmap, from, to) == [i \in 1..(to - from) |-> mmap[from + i]]

RECURSIVE Digits(_)
Digits(n) == IF n < 10 THEN <<48 + n>> ELSE Digits(n \div 10) \o <<48 + (n % 10)>>

\* format!("{:010}", n): at least ten digits, zero padded on the left
Pad10(n) ==
    LET d == Digits(n)
    IN  IF Len(d) >= 10 THEN d ELSE [i \in 1..(10 - Len(d)) |-> 48] \o d

IsDigit(b) == b >= 48 /\ b <= 57

RECURSIVE DigitsValue(_)
DigitsValue(s) ==
    IF s = <<>> THEN 0 ELSE 10 * DigitsValue(SubSeq(s, 1, Len(s) - 1)) + (s[Len(s)] - 48)

ParseUsize_NulAsZero(s) ==
    IF s # <<>> /\ \A i \in 1..Len(s) : IsDigit(s[i]) \/ s[i] = 0
    THEN [ok |-> TRUE, val |-> DigitsValue([i \in 1..Len(s) |-> IF s[i] = 0 THEN 48 ELSE s[i]])]
    ELSE [ok |-> FALSE, val |-> 0]

\* str::parse::<usize>: an optional leading '+', then one or more decimal
\* digits; anything else (a NUL byte of the zero filled tail included) is a
\* ParseIntError
ParseUsize(s) ==
    LET body == IF s # <<>> /\ s[1] = 43 THEN Tail(s) ELSE s
    IN  IF body # <<>> /\ \A i \in 1..Len(body) : IsDigit(body[i])
        THEN [ok |-> TRUE, val |-> DigitsValue(body)]
        ELSE [ok |-> FALSE, val |-> 0]

\* ---------------------------------------------------------------------------
\* Log (segment/log.rs)

LogNew_CursorFromFile(file, base_offset, max_size) ==
    [mmap |-> SetLen(file, max_size), base_offset |-> base_offset,
     offset |-> max_size, max_size |-> max_size]

LogNew_Truncate(file, base_offset, max_size) ==
    [mmap |-> SetLen(<<>>, max_size), base_offset |-> base_offset,
     offset |-> 0, max_size |-> max_size]

\* Log::new over a file holding `file` (<<>> when it does not exist yet)
LogNew(file, base_offset, max_size) ==
    [mmap |-> SetLen(file, max_size), base_offset |-> base_offset,
     offset |-> 0, max_size |-> max_size]

LogOffset(log) == log.offset

LogFit_FromCapacity(log, buffer_size) == log.max_size >= buffer_size

LogFit_Strict(log, buffer_size) == (log.max_size - log.offset) > buffer_size

LogFit(log, buffer_size) == (log.max_size - log.offset) >= buffer_size

LogWrite_Unchecked(log, buffer) ==
    LET buffer_size == Len(buffer)
    IN  [log |-> [log EXCEPT !.offset = log.offset + buffer_size,
                             !.mmap = SliceWrite(log.mmap, log.offset, buffer_size, buffer)],
         ok |-> TRUE, n |-> Min(buffer_size, Len(buffer)), err |-> ""]

LogWrite_NoAdvance(log, buffer) ==
    LET buffer_size == Len(buffer)
    IN  IF ~LogFit(log, buffer_size)
        THEN [log |-> log, ok |-> FALSE, n |-> 0, err |-> "NoSpaceLeft"]
        ELSE [log |-> [log EXCEPT !.mmap = SliceWrite(log.mmap, log.offset, buffer_size, buffer)],
              ok |-> TRUE, n |-> Min(buffer_size, Len(buffer)), err |-> ""]

LogWrite_AtNewCursor(log, buffer) ==
    LET buffer_size == Len(buffer)
    IN  IF ~LogFit(log, buffer_size)
        THEN [log |-> log, ok |-> FALSE, n |-> 0, err |-> "NoSpaceLeft"]
        ELSE [log |-> [log EXCEPT !.offset = log.offset + buffer_size,
                                  !.mmap = SliceWrite(log.mmap, log.offset + buffer_size,
                                                      Len(log.mmap) - (log.offset + buffer_size),
                                                      buffer)],
              ok |-> TRUE, n |-> Min(buffer_size, Len(buffer)), err |-> ""]

LogWrite(log, buffer) ==
    LET buffer_size == Len(buffer)
    IN  IF ~LogFit(log, buffer_size)
        THEN [log |-> log, ok |-> FALSE, n |-> 0, err |-> "NoSpaceLeft"]
        ELSE [log |-> [log EXCEPT !.offset = log.offset + buffer_size,
                                  !.mmap = SliceWrite(log.mmap, log.offset, buffer_size, buffer)],
              ok |-> TRUE, n |-> Min(buffer_size, Len(buffer)), err |-> ""]

LogReadAt_UpToCursor(log, offset, size) ==
    IF (offset + size) > log.offset
    THEN [ok |-> FALSE, val |-> <<>>, err |-> "InvalidIndex"]
    ELSE [ok |-> TRUE, val |-> Slice(log.mmap, offset, offset + size), err |-> ""]

LogReadAt(log, offset, size) ==
    IF (offset + size) > Len(log.mmap)
    THEN [ok |-> FALSE, val |-> <<>>, err |-> "InvalidIndex"]
    ELSE [ok |-> TRUE, val |-> Slice(log.mmap, offset, offset + size), err |-> ""]

\* ---------------------------------------------------------------------------
\* Index (segment/index.rs)

Entry(offset, size) == [offset |-> offset, size |-> size]

EntryToString(entry) == Pad10(entry.offset) \o Pad10(entry.size)

IndexNew(file, base_offset, max_size) ==
    [mmap |-> SetLen(file, max_size), base_offset |-> base_offset,
     offset |-> 0, max_size |-> max_size]

IndexFit_Strict(index, entry) == index.max_size > (index.offset + (entry * ENTRY_SIZE))

IndexFit(index, entry) == index.max_size >= (index.offset + (entry * ENTRY_SIZE))

IndexWrite_NoAdvance(index, entry) ==
    IF ~IndexFit(index, 1)
    THEN [index |-> index, ok |-> FALSE, n |-> 0, err |-> "NoSpaceLeft"]
    ELSE [index |-> [index EXCEPT
                        !.mmap = SliceWrite(index.mmap, index.offset, ENTRY_SIZE,
                                            EntryToString(entry))],
          ok |-> TRUE, n |-> Min(ENTRY_SIZE, Len(EntryToString(entry))), err |-> ""]

IndexWrite_AfterCursor(index, entry) ==
    IF ~IndexFit(index, 1)
    THEN [index |-> index, ok |-> FALSE, n |-> 0, err |-> "NoSpaceLeft"]
    ELSE [index |-> [index EXCEPT
                        !.offset = index.offset + ENTRY_SIZE,
                        !.mmap = SliceWrite(index.mmap, index.offset + ENTRY_SIZE, ENTRY_SIZE,
                                            EntryToString(entry))],
          ok |-> TRUE, n |-> Min(ENTRY_SIZE, Len(EntryToString(entry))), err |-> ""]

IndexWrite(index, entry) ==
    IF ~IndexFit(index, 1)
    THEN [index |-> index, ok |-> FALSE, n |-> 0, err |-> "NoSpaceLeft"]
    ELSE [index |-> [index EXCEPT
                        !.offset = index.offset + ENTRY_SIZE,
                        !.mmap = SliceWrite(index.mmap, index.offset, ENTRY_SIZE,
                                            EntryToString(entry))],
          ok |-> TRUE, n |-> Min(ENTRY_SIZE, Len(EntryToString(entry))), err |-> ""]

IndexReadAt(index, offset) ==
    LET real_offset == offset * ENTRY_SIZE
    IN  IF (real_offset + ENTRY_SIZE) >= Len(index.mmap)
        THEN [ok |-> FALSE, entry |-> Entry(0, 0), err |-> "InvalidIndex"]
        ELSE LET buffer == Slice(index.mmap, real_offset, real_offset + ENTRY_SIZE)
                 position == ParseUsize(SubSeq(buffer, 1, ENTRY_SIZE \div 2))
                 size == ParseUsize(SubSeq(buffer, (ENTRY_SIZE \div 2) + 1, ENTRY_SIZE))
             IN  IF ~position.ok \/ ~size.ok
                 THEN [ok |-> FALSE, entry |-> Entry(0, 0), err |-> "Num"]
                 ELSE [ok |-> TRUE, entry |-> Entry(position.val, size.val), err |-> ""]

\* ---------------------------------------------------------------------------
\* Segment (segment/mod.rs)

SegmentNew(offset, max_log_size, max_index_size) ==
    [log |-> LogNew(<<>>, offset, max_log_size),
     index |-> IndexNew(<<>>, offset, max_index_size),
     offset |-> offset]

\* Segment::new over the files an earlier Segment left in the directory
SegmentReopen(segment) ==
    [log |-> LogNew(segment.log.mmap, segment.offset, segment.log.max_size),
     index |-> IndexNew(segment.index.mmap, segment.offset, segment.index.max_size),
     offset |-> segment.offset]

SegmentFit_Either(segment, buffer_size) ==
    LogFit(segment.log, buffer_size) \/ IndexFit(segment.index, 1)

SegmentFit_LogOnly(segment, buffer_size) == LogFit(segment.log, buffer_size)

SegmentFit(segment, buffer_size) ==
    LogFit(segment.log, buffer_size) /\ IndexFit(segment.index, 1)

SegmentWrite_LogFirst(segment, buffer) ==
    LET l == LogWrite(segment.log, buffer)
        i == IndexWrite(segment.index, Entry(LogOffset(segment.log), Len(buffer)))
    IN  IF ~l.ok
        THEN [segment |-> segment, ok |-> FALSE, n |-> 0, err |-> "Log(" \o l.err \o ")"]
        ELSE IF ~i.ok
        THEN [segment |-> [segment EXCEPT !.log = l.log],
              ok |-> FALSE, n |-> 0, err |-> "Index(" \o i.err \o ")"]
        ELSE [segment |-> [segment EXCEPT !.index = i.index, !.log = l.log],
              ok |-> TRUE, n |-> l.n, err |-> ""]

SegmentWrite_Rewind(segment, buffer) ==
    LET i == IndexWrite(segment.index, Entry(LogOffset(segment.log), Len(buffer)))
        l == LogWrite(segment.log, buffer)
    IN  IF ~i.ok
        THEN [segment |-> segment, ok |-> FALSE, n |-> 0, err |-> "Index(" \o i.err \o ")"]
        ELSE IF ~l.ok
        THEN [segment |-> segment, ok |-> FALSE, n |-> 0, err |-> "Log(" \o l.err \o ")"]
        ELSE [segment |-> [segment EXCEPT !.index = i.index, !.log = l.log],
              ok |-> TRUE, n |-> l.n, err |-> ""]

SegmentWrite_OffsetAfter(segment, buffer) ==
    LET l == LogWrite(segment.log, buffer)
        i == IndexWrite(segment.index, Entry(LogOffset(l.log), Len(buffer)))
    IN  IF ~i.ok
        THEN [segment |-> segment, ok |-> FALSE, n |-> 0, err |-> "Index(" \o i.err \o ")"]
        ELSE IF ~l.ok
        THEN [segment |-> [segment EXCEPT !.index = i.index],
              ok |-> FALSE, n |-> 0, err |-> "Log(" \o l.err \o ")"]
        ELSE [segment |-> [segment EXCEPT !.index = i.index, !.log = l.log],
              ok |-> TRUE, n |-> l.n, err |-> ""]

SegmentWrite(segment, buffer) ==
    LET i == IndexWrite(segment.index, Entry(LogOffset(segment.log), Len(buffer)))
        l == LogWrite(segment.log, buffer)
    IN  IF ~i.ok
        THEN [segment |-> segment, ok |-> FALSE, n |-> 0, err |-> "Index(" \o i.err \o ")"]
        ELSE IF ~l.ok
        THEN [segment |-> [segment EXCEPT !.index = i.index],
              ok |-> FALSE, n |-> 0, err |-> "Log(" \o l.err \o ")"]
        ELSE [segment |-> [segment EXCEPT !.index = i.index, !.log = l.log],
              ok |-> TRUE, n |-> l.n, err |-> ""]

SegmentReadAt(segment, offset) ==
    LET entry == IndexReadAt(segment.index, offset)
    IN  IF ~entry.ok
        THEN [ok |-> FALSE, val |-> <<>>, err |-> "Index(" \o entry.err \o ")"]
        ELSE LET buf == LogReadAt(segment.log, entry.entry.offset, entry.entry.size)
             IN  IF ~buf.ok
                 THEN [ok |-> FALSE, val |-> <<>>, err |-> "Log(" \o buf.err \o ")"]
                 ELSE buf

\* flush_async on both mappings: schedules an msync, no field changes
SegmentFlush(segment) == [segment |-> segment, ok |-> TRUE, err |-> ""]

\* ---------------------------------------------------------------------------
\* CommitLog (lib.rs); `self` is the record of the struct's fields

Self ==
    [segments |-> segments, segment_size |-> segment_size,
     index_size |-> index_size, current_segment |-> current_segment]

CommitLogNew(seg_size, idx_size) ==
    [segments |-> <<SegmentNew(0, seg_size, idx_size)>>,
     segment_size |-> seg_size, index_size |-> idx_size, current_segment |-> 0]

\* position (1-based) of the active segment in self.segments
ActiveSegment(self) == (Len(self.segments) - 1) + 1

RotateSegment_Replace(self) ==
    LET next_offset == Len(self.segments)
        flushed == SegmentFlush(self.segments[ActiveSegment(self)])
    IN  IF ~flushed.ok
        THEN [self |-> self, ok |-> FALSE, err |-> "Segment(" \o flushed.err \o ")"]
        ELSE [self |-> [self EXCEPT !.segments[ActiveSegment(self)] =
                           SegmentNew(next_offset, self.segment_size, self.index_size)],
              ok |-> TRUE, err |-> ""]

RotateSegment_BaseFromCurrent(self) ==
    LET next_offset == self.current_segment + 1
        flushed == SegmentFlush(self.segments[ActiveSegment(self)])
    IN  IF ~flushed.ok
        THEN [self |-> self, ok |-> FALSE, err |-> "Segment(" \o flushed.err \o ")"]
        ELSE [self |-> [self EXCEPT !.segments =
                           Append(self.segments,
                                  SegmentNew(next_offset, self.segment_size, self.index_size))],
              ok |-> TRUE, err |-> ""]

RotateSegment(self) ==
    LET next_offset == Len(self.segments)
        flushed == SegmentFlush(self.segments[ActiveSegment(self)])
    IN  IF ~flushed.ok
        THEN [self |-> self, ok |-> FALSE, err |-> "Segment(" \o flushed.err \o ")"]
        ELSE [self |-> [self EXCEPT !.segments =
                           Append([self.segments EXCEPT ![ActiveSegment(self)] = flushed.segment],
                                  SegmentNew(next_offset, self.segment_size, self.index_size))],
              ok |-> TRUE, err |-> ""]

CommitLogWrite_RotateEarly(self, buffer) ==
    LET buffer_size == Len(buffer)
    IN  IF buffer_size > self.segment_size
        THEN [self |-> self, ok |-> FALSE, n |-> 0, err |-> "BufferSizeExceeded"]
        ELSE
            LET rotated == IF ~SegmentFit(self.segments[ActiveSegment(self)], buffer_size + 1)
                           THEN RotateSegment(self)
                           ELSE [self |-> self, ok |-> TRUE, err |-> ""]
                a == ActiveSegment(rotated.self)
                w == SegmentWrite(rotated.self.segments[a], buffer)
            IN  IF ~w.ok
                THEN [self |-> [rotated.self EXCEPT !.segments[a] = w.segment],
                      ok |-> FALSE, n |-> 0, err |-> "Segment(" \o w.err \o ")"]
                ELSE [self |-> [rotated.self EXCEPT !.segments[a] = w.segment],
                      ok |-> TRUE, n |-> w.n, err |-> ""]

CommitLogWrite_NoSizeCheck(self, buffer) ==
    LET buffer_size == Len(buffer)
        rotated == IF ~SegmentFit(self.segments[ActiveSegment(self)], buffer_size)
                   THEN RotateSegment(self)
                   ELSE [self |-> self, ok |-> TRUE, err |-> ""]
        a == ActiveSegment(rotated.self)
        w == SegmentWrite(rotated.self.segments[a], buffer)
    IN  IF ~w.ok
        THEN [self |-> [rotated.self EXCEPT !.segments[a] = w.segment],
              ok |-> FALSE, n |-> 0, err |-> "Segment(" \o w.err \o ")"]
        ELSE [self |-> [rotated.self EXCEPT !.segments[a] = w.segment],
              ok |-> TRUE, n |-> w.n, err |-> ""]

CommitLogWrite(self, buffer) ==
    LET buffer_size == Len(buffer)
    IN  IF buffer_size > self.segment_size
        THEN [self |-> self, ok |-> FALSE, n |-> 0, err |-> "BufferSizeExceeded"]
        ELSE
            LET rotated == IF ~SegmentFit(self.segments[ActiveSegment(self)], buffer_size)
                           THEN RotateSegment(self)
                           ELSE [self |-> self, ok |-> TRUE, err |-> ""]
            IN  IF ~rotated.ok
                THEN [self |-> rotated.self, ok |-> FALSE, n |-> 0, err |-> rotated.err]
                ELSE
                    LET a == ActiveSegment(rotated.self)
                        w == SegmentWrite(rotated.self.segments[a], buffer)
                    IN  IF ~w.ok
                        THEN [self |-> [rotated.self EXCEPT !.segments[a] = w.segment],
                              ok |-> FALSE, n |-> 0, err |-> "Segment(" \o w.err \o ")"]
                        ELSE [self |-> [rotated.self EXCEPT !.segments[a] = w.segment],
                              ok |-> TRUE, n |-> w.n, err |-> ""]

CommitLogReadAt_OffByOne(self, segment_index, offset) ==
    IF segment_index + 1 >= Len(self.segments)
    THEN [ok |-> FALSE, val |-> <<>>, err |-> "SegmentUnavailable"]
    ELSE LET buf == SegmentReadAt(self.segments[segment_index + 1], offset)
         IN  IF ~buf.ok
             THEN [ok |-> FALSE, val |-> <<>>, err |-> "Segment(" \o buf.err \o ")"]
             ELSE buf

CommitLogReadAt(self, segment_index, offset) ==
    IF segment_index >= Len(self.segments)
    THEN [ok |-> FALSE, val |-> <<>>, err |-> "SegmentUnavailable"]
    ELSE LET buf == SegmentReadAt(self.segments[segment_index + 1], offset)
         IN  IF ~buf.ok
             THEN [ok |-> FALSE, val |-> <<>>, err |-> "Segment(" \o buf.err \o ")"]
             ELSE buf

\* ---------------------------------------------------------------------------
\* the same constructors, flush and write with the operating system allowed to
\* fail: `os` names the one system call that fails during the operation, or
\* is "none". A result has outcome "ok", "err" (an Err value is returned) or
\* "panic" (unwrap / expect on an Err), and `created` lists the files the
\* operation made before it ended.

OsCalls ==
    {"none", "create_dir", "log_open", "log_set_len", "log_map",
     "index_open", "index_set_len", "index_map", "index_flush", "log_flush"}

\* Log::new: open(..)?, set_len(..)?, map_mut(..).expect(..)
LogNewOs(file, base_offset, max_size, os) ==
    IF os = "log_open"
    THEN [outcome |-> "err", err |-> "Io", created |-> {}]
    ELSE IF os = "log_set_len"
    THEN [outcome |-> "err", err |-> "Io", created |-> {"log"}]
    ELSE IF os = "log_map"
    THEN [outcome |-> "panic", err |-> "failed to map the file", created |-> {"log"}]
    ELSE [outcome |-> "ok", err |-> "", created |-> {"log"},
          log |-> LogNew(file, base_offset, max_size)]

\* Index::new: open(..)?, set_len(..).unwrap(), map_mut(..).expect(..)
IndexNewOs(file, base_offset, max_size, os) ==
    IF os = "index_open"
    THEN [outcome |-> "err", err |-> "Io", created |-> {}]
    ELSE IF os = "index_set_len"
    THEN [outcome |-> "panic", err |-> "unwrap", created |-> {"idx"}]
    ELSE IF os = "index_map"
    THEN [outcome |-> "panic", err |-> "failed to map the file", created |-> {"idx"}]
    ELSE [outcome |-> "ok", err |-> "", created |-> {"idx"},
          index |-> IndexNew(file, base_offset, max_size)]

\* Segment::new: Log::new(..)? then Index::new(..)?
SegmentNewOs(offset, max_log_size, max_index_size, os) ==
    LET l == LogNewOs(<<>>, offset, max_log_size, os)
        i == IndexNewOs(<<>>, offset, max_index_size, os)
    IN  IF l.outcome = "err"
        THEN [outcome |-> "err", err |-> "Log(" \o l.err \o ")", created |-> l.created]
        ELSE IF l.outcome = "panic"
        THEN [outcome |-> "panic", err |-> l.err, created |-> l.created]
        ELSE IF i.outcome = "err"
        THEN [outcome |-> "err", err |-> "Index(" \o i.err \o ")",
              created |-> l.created \cup i.created]
        ELSE IF i.outcome = "panic"
        THEN [outcome |-> "panic", err |-> i.err, created |-> l.created \cup i.created]
        ELSE [outcome |-> "ok", err |-> "", created |-> l.created \cup i.created,
              segment |-> [log |-> l.log, index |-> i.index, offset |-> offset]]

\* Segment::flush: self.index.flush()? then self.log.flush()?
SegmentFlushOs(segment, os) ==
    IF os = "index_flush"
    THEN [outcome |-> "err", err |-> "Index(Io)", segment |-> segment]
    ELSE IF os = "log_flush"
    THEN [outcome |-> "err", err |-> "Log(Io)", segment |-> segment]
    ELSE [outcome |-> "ok", err |-> "", segment |-> SegmentFlush(segment).segment]

\* CommitLog::new: create_dir_all(..)? then Segment::new(.., 0, ..)?
CommitLogNewOs(seg_size, idx_size, os) ==
    LET s == SegmentNewOs(0, seg_size, idx_size, os)
        empty == [segments |-> <<>>, segment_size |-> seg_size, index_size |-> idx_size,
                  current_segment |-> 0]
    IN  IF os = "create_dir"
        THEN [outcome |-> "err", err |-> "Io", created |-> {}, self |-> empty]
        ELSE IF s.outcome = "err"
        THEN [outcome |-> "err", err |-> "Segment(" \o s.err \o ")", created |-> s.created,
              self |-> empty]
        ELSE IF s.outcome = "panic"
        THEN [outcome |-> "panic", err |-> s.err, created |-> s.created, self |-> empty]
        ELSE [outcome |-> "ok", err |-> "", created |-> s.created,
              self |-> [empty EXCEPT !.segments = <<s.segment>>]]

\* CommitLog::rotate_segment: active_segment().flush()? then push(Segment::new(..)?)
RotateSegmentOs(self, os) ==
    LET next_offset == Len(self.segments)
        flushed == SegmentFlushOs(self.segments[ActiveSegment(self)], os)
        opened == SegmentNewOs(next_offset, self.segment_size, self.index_size, os)
    IN  IF flushed.outcome = "err"
        THEN [outcome |-> "err", err |-> "Segment(" \o flushed.err \o ")", created |-> {},
              self |-> self]
        ELSE IF opened.outcome = "err"
        THEN [outcome |-> "err", err |-> "Segment(" \o opened.err \o ")",
              created |-> opened.created, self |-> self]
        ELSE IF opened.outcome = "panic"
        THEN [outcome |-> "panic", err |-> opened.err, created |-> opened.created, self |-> self]
        ELSE [outcome |-> "ok", err |-> "", created |-> opened.created,
              self |-> [self EXCEPT !.segments =
                           Append([self.segments EXCEPT ![ActiveSegment(self)] = flushed.segment],
                                  opened.segment)]]

\* CommitLog::write, its rotation meeting the failure `os`
CommitLogWriteOs(self, buffer, os) ==
    LET buffer_size == Len(buffer)
        none == [outcome |-> "ok", err |-> "", created |-> {}, self |-> self]
    IN  IF buffer_size > self.segment_size
        THEN [outcome |-> "err", err |-> "BufferSizeExceeded", created |-> {}, n |-> 0,
              self |-> self]
        ELSE
            LET rotated == IF ~SegmentFit(self.segments[ActiveSegment(self)], buffer_size)
                           THEN RotateSegmentOs(self, os)
                           ELSE none
            IN  IF rotated.outcome # "ok"
                THEN [outcome |-> rotated.outcome, err |-> rotated.err,
                      created |-> rotated.created, n |-> 0, self |-> rotated.self]
                ELSE
                    LET a == ActiveSegment(rotated.self)
                        w == SegmentWrite(rotated.self.segments[a], buffer)
                    IN  [outcome |-> IF w.ok THEN "ok" ELSE "err",
                         err |-> IF w.ok THEN "" ELSE "Segment(" \o w.err \o ")",
                         created |-> rotated.created, n |-> w.n,
                         self |-> [rotated.self EXCEPT !.segments[a] = w.segment]]

\* Position::Horizon, Position::Offset(n)
Horizon == [kind |-> "Horizon", offset |-> 0]

Offset(n) == [kind |-> "Offset", offset |-> n]

Record(segment_index, current_offset) ==
    [segment_index |-> segment_index, current_offset |-> current_offset]

CommitLogReadAfter(self, position, offset) ==
    LET horizon == 1
        current_pos == IF position.kind = "Horizon" THEN horizon ELSE position.offset
    IN  [ok |-> TRUE, record |-> Record(self.current_segment, offset + current_pos)]

CommitLogRead(self, position) == CommitLogReadAfter(self, position, 0)

ReaderRead_Inclusive(commit_log, record) ==
    IF record.segment_index > Len(commit_log.segments)
    THEN [ok |-> FALSE, val |-> <<>>, err |-> "InvalidPosition"]
    ELSE LET buf == SegmentReadAt(commit_log.segments[Min(record.segment_index + 1,
                                                          Len(commit_log.segments))],
                                  record.current_offset)
         IN  IF ~buf.ok
             THEN [ok |-> FALSE, val |-> <<>>, err |-> "Segment(" \o buf.err \o ")"]
             ELSE buf

\* Reader::read (reader.rs), the Reader borrowing the CommitLog `commit_log`
ReaderRead(commit_log, record) ==
    IF record.segment_index >= Len(commit_log.segments)
    THEN [ok |-> FALSE, val |-> <<>>, err |-> "InvalidPosition"]
    ELSE LET buf == SegmentReadAt(commit_log.segments[record.segment_index + 1],
                                  record.current_offset)
         IN  IF ~buf.ok
             THEN [ok |-> FALSE, val |-> <<>>, err |-> "Segment(" \o buf.err \o ")"]
             ELSE buf

ReaderRecordAfter_FromStart(record, offset) == Record(record.segment_index, offset)

\* Reader::record_after, Reader::next, Reader::next_segment
ReaderRecordAfter(record, offset) ==
    Record(record.segment_index, record.current_offset + offset)

ReaderNext(record) == ReaderRecordAfter(record, 1)

ReaderNextSegment(record) == Record(record.segment_index + 1, 0)

\* ---------------------------------------------------------------------------
\* history

\* number of successful writes that went to segment s (0-based)
RecordsIn(w, s) == Cardinality({k \in 1..Len(w) : w[k].segment = s})

NoCall ==
    [op |-> "new", arg |-> <<>>, seg |-> 0, rec |-> 0, ok |-> TRUE, n |-> 0,
     val |-> <<>>, err |-> "", pre_len |-> 0, pre_fit |-> TRUE,
     num |-> 0, entry |-> Entry(0, 0), position |-> Horizon,
     os |-> "none", outcome |-> "ok", created |-> {}]

NoScan ==
    [mode |-> "none", i |-> 0, j |-> 0, segment_error |-> FALSE, out |-> <<>>,
     done |-> FALSE, helpers |-> <<>>]

\* ---------------------------------------------------------------------------
\* the state machine

\* CommitLog::new(dir, seg_size, idx_size) on an empty directory
Init ==
    \E seg_size \in SegmentSizes, idx_size \in IndexSizes :
        LET c == CommitLogNew(seg_size, idx_size)
        IN  /\ segments = c.segments
            /\ segment_size = c.segment_size
            /\ index_size = c.index_size
            /\ current_segment = c.current_segment
            /\ written = <<>>
            /\ last = NoCall
            /\ scan = NoScan
            /\ reopened = FALSE

\* CommitLog::write(buffer)
Write(buffer) ==
    /\ scan.mode = "none"
    /\ Len(written) < MaxWrites
    /\ LET r == CommitLogWrite(Self, buffer)
       IN  /\ segments' = r.self.segments
           /\ segment_size' = r.self.segment_size
           /\ index_size' = r.self.index_size
           /\ current_segment' = r.self.current_segment
           /\ written' = IF r.ok
                         THEN Append(written,
                                     [payload |-> buffer,
                                      segment |-> Len(r.self.segments) - 1,
                                      record |-> RecordsIn(written, Len(r.self.segments) - 1)])
                         ELSE written
           /\ last' = [NoCall EXCEPT !.op = "write", !.arg = buffer, !.ok = r.ok,
                                     !.n = r.n, !.err = r.err,
                                     !.pre_len = Len(segments),
                                     !.pre_fit = SegmentFit(segments[Len(segments)],
                                                            Len(buffer))]
    /\ UNCHANGED <<scan, reopened>>

ReadAt_MovesCursor(segment_index, offset) ==
    /\ scan.mode = "none"
    /\ LET r == CommitLogReadAt(Self, segment_index, offset)
       IN  /\ last' = [NoCall EXCEPT !.op = "read_at", !.seg = segment_index, !.rec = offset,
                                     !.ok = r.ok, !.val = r.val, !.err = r.err,
                                     !.pre_len = Len(segments)]
           /\ segments' = IF r.ok
                          THEN LET e == IndexReadAt(segments[segment_index + 1].index, offset).entry
                               IN  [segments EXCEPT ![segment_index + 1].log.offset =
                                                       e.offset + e.size]
                          ELSE segments
    /\ UNCHANGED <<segment_size, index_size, current_segment, written, scan, reopened>>

\* CommitLog::read_at(segment_index, offset)
ReadAt(segment_index, offset) ==
    /\ scan.mode = "none"
    /\ LET r == CommitLogReadAt(Self, segment_index, offset)
       IN  last' = [NoCall EXCEPT !.op = "read_at", !.seg = segment_index, !.rec = offset,
                                  !.ok = r.ok, !.val = r.val, !.err = r.err,
                                  !.pre_len = Len(segments)]
    /\ UNCHANGED <<segments, segment_size, index_size, current_segment, written, scan, reopened>>

\* CommitLog::read(position), the Record then handed to Reader::read
Read(position) ==
    /\ scan.mode = "none"
    /\ LET record == CommitLogRead(Self, position).record
           r == ReaderRead(Self, record)
       IN  last' = [NoCall EXCEPT !.op = "read", !.position = position,
                                  !.seg = record.segment_index,
                                  !.rec = record.current_offset,
                                  !.ok = r.ok, !.val = r.val, !.err = r.err,
                                  !.pre_len = Len(segments)]
    /\ UNCHANGED <<segments, segment_size, index_size, current_segment, written, scan, reopened>>

\* main.rs / benchmark.rs: `let mut i = 0; let mut j = 0; let mut segment_error = false;`
StartTwoStrikeScan ==
    /\ scan.mode = "none"
    /\ scan' = [NoScan EXCEPT !.mode = "two_strike"]
    /\ last' = [NoCall EXCEPT !.op = "scan"]
    /\ UNCHANGED <<segments, segment_size, index_size, current_segment, written, reopened>>

\* one iteration of the drivers' read loop
TwoStrikeStep ==
    /\ scan.mode = "two_strike"
    /\ ~scan.done
    /\ LET r == CommitLogReadAt(Self, scan.i, scan.j)
       IN  scan' = IF r.ok
                   THEN [scan EXCEPT !.segment_error = FALSE, !.j = scan.j + 1,
                                     !.out = Append(scan.out, r.val)]
                   ELSE IF scan.segment_error
                   THEN [scan EXCEPT !.done = TRUE]
                   ELSE [scan EXCEPT !.segment_error = TRUE, !.i = scan.i + 1, !.j = 0]
    /\ UNCHANGED <<segments, segment_size, index_size, current_segment, written, last, reopened>>

\* integration_test.rs: `let mut segment = 0; let mut offset = 0;`
StartConsistencyScan ==
    /\ scan.mode = "none"
    /\ scan' = [NoScan EXCEPT !.mode = "consistency"]
    /\ last' = [NoCall EXCEPT !.op = "scan"]
    /\ UNCHANGED <<segments, segment_size, index_size, current_segment, written, reopened>>

\* one iteration of the integration test's read loop
ConsistencyStep ==
    /\ scan.mode = "consistency"
    /\ ~scan.done
    /\ LET r == CommitLogReadAt(Self, scan.i, scan.j)
       IN  scan' = IF r.ok
                   THEN [scan EXCEPT !.j = scan.j + 1, !.out = Append(scan.out, r.val)]
                   ELSE IF r.err = "SegmentUnavailable"
                   THEN [scan EXCEPT !.done = TRUE]
                   ELSE [scan EXCEPT !.i = scan.i + 1, !.j = 0]
    /\ UNCHANGED <<segments, segment_size, index_size, current_segment, written, last, reopened>>

Next ==
    \/ \E buffer \in Payloads : Write(buffer)
    \/ \E segment_index \in 0..Len(segments), offset \in 0..MaxRecordIndex :
          ReadAt(segment_index, offset)
    \/ \E position \in {Horizon} \cup {Offset(n) : n \in 0..MaxRecordIndex} : Read(position)
    \/ StartTwoStrikeScan
    \/ TwoStrikeStep
    \/ StartConsistencyScan
    \/ ConsistencyStep

Spec == Init /\ [][Next]_vars

\* ---------------------------------------------------------------------------

\* ---------------------------------------------------------------------------
\* one Segment on its own, its Log and its Index called directly, as the unit
\* tests of log.rs, index.rs and mod.rs do. The Segment under test is
\* segments[1]; segment_size and index_size are its two max sizes; `written`
\* is the list of entries Index::write accepted since the Segment was opened.

\* max_size arguments of Log::new
UnitLogSizes == {1, 3}
\* max_size arguments of Index::new: less than one entry, one entry exactly,
\* two entries exactly, two entries and a 5 byte remainder
UnitIndexSizes == {ENTRY_SIZE \div 2, ENTRY_SIZE, 2 * ENTRY_SIZE, 2 * ENTRY_SIZE + 5}
\* buffers handed to Log::write
UnitPayloads == {<<>>, <<1>>, <<0, 1>>, <<1, 1, 1>>}
\* entries handed to Index::write
UnitEntries ==
    {Entry(0, 0), Entry(0, 10), Entry(10, 20), Entry(1521230, 91028317),
     Entry(2147483647, 1)}

\* Segment::new(dir, 0, max_log_size, max_index_size) in an empty directory
UnitInit ==
    \E max_log_size \in UnitLogSizes, max_index_size \in UnitIndexSizes :
        /\ segments = <<SegmentNew(0, max_log_size, max_index_size)>>
        /\ segment_size = max_log_size
        /\ index_size = max_index_size
        /\ current_segment = 0
        /\ written = <<>>
        /\ last = NoCall
        /\ scan = NoScan
        /\ reopened = FALSE

\* Log::fit(buffer_size)
LogFitCall(buffer_size) ==
    /\ last' = [NoCall EXCEPT !.op = "log_fit", !.num = buffer_size,
                              !.ok = LogFit(segments[1].log, buffer_size)]
    /\ UNCHANGED <<segments, segment_size, index_size, current_segment, written, scan,
                   reopened>>

\* Log::write(buffer)
LogWriteCall(buffer) ==
    /\ LET r == LogWrite(segments[1].log, buffer)
       IN  /\ segments' = [segments EXCEPT ![1].log = r.log]
           /\ last' = [NoCall EXCEPT !.op = "log_write", !.arg = buffer, !.ok = r.ok,
                                     !.n = r.n, !.err = r.err]
    /\ UNCHANGED <<segment_size, index_size, current_segment, written, scan, reopened>>

\* Index::fit(entry)
IndexFitCall(entry) ==
    /\ last' = [NoCall EXCEPT !.op = "index_fit", !.num = entry,
                              !.ok = IndexFit(segments[1].index, entry)]
    /\ UNCHANGED <<segments, segment_size, index_size, current_segment, written, scan,
                   reopened>>

\* Index::write(entry)
IndexWriteCall(entry) ==
    /\ LET r == IndexWrite(segments[1].index, entry)
       IN  /\ segments' = [segments EXCEPT ![1].index = r.index]
           /\ written' = IF r.ok THEN Append(written, entry) ELSE written
           /\ last' = [NoCall EXCEPT !.op = "index_write", !.entry = entry, !.ok = r.ok,
                                     !.n = r.n, !.err = r.err]
    /\ UNCHANGED <<segment_size, index_size, current_segment, scan, reopened>>

\* Index::read_at(offset)
IndexReadAtCall(offset) ==
    /\ LET r == IndexReadAt(segments[1].index, offset)
       IN  last' = [NoCall EXCEPT !.op = "index_read_at", !.num = offset, !.ok = r.ok,
                                  !.entry = r.entry, !.err = r.err]
    /\ UNCHANGED <<segments, segment_size, index_size, current_segment, written, scan,
                   reopened>>

\* Log::read_at(offset, size)
LogReadAtCall(offset, size) ==
    /\ LET r == LogReadAt(segments[1].log, offset, size)
       IN  last' = [NoCall EXCEPT !.op = "log_read_at", !.rec = offset, !.num = size,
                                  !.ok = r.ok, !.val = r.val, !.err = r.err]
    /\ UNCHANGED <<segments, segment_size, index_size, current_segment, written, scan,
                   reopened>>

\* Segment::fit(buffer_size)
SegmentFitCall(buffer_size) ==
    /\ last' = [NoCall EXCEPT !.op = "segment_fit", !.num = buffer_size,
                              !.ok = SegmentFit(segments[1], buffer_size)]
    /\ UNCHANGED <<segments, segment_size, index_size, current_segment, written, scan,
                   reopened>>

\* Segment::write(buffer), called on the Segment directly
SegmentWriteCall(buffer) ==
    /\ LET r == SegmentWrite(segments[1], buffer)
           entry == Entry(LogOffset(segments[1].log), Len(buffer))
       IN  /\ segments' = [segments EXCEPT ![1] = r.segment]
           /\ written' = IF IndexWrite(segments[1].index, entry).ok
                         THEN Append(written, entry)
                         ELSE written
           /\ last' = [NoCall EXCEPT !.op = "segment_write", !.arg = buffer, !.ok = r.ok,
                                     !.n = r.n, !.err = r.err]
    /\ UNCHANGED <<segment_size, index_size, current_segment, scan, reopened>>

\* the handle is dropped and Segment::new is called again on the same files
Reopen ==
    /\ segments' = <<SegmentReopen(segments[1])>>
    /\ written' = <<>>
    /\ last' = [NoCall EXCEPT !.op = "reopen"]
    /\ reopened' = TRUE
    /\ UNCHANGED <<segment_size, index_size, current_segment, scan>>

UnitNext ==
    \/ \E buffer_size \in 0..(MaxRecordIndex + 2) : LogFitCall(buffer_size)
    \/ \E buffer \in UnitPayloads : LogWriteCall(buffer)
    \/ \E entry \in 0..(MaxRecordIndex + 1) : IndexFitCall(entry)
    \/ \E entry \in UnitEntries : IndexWriteCall(entry)
    \/ \E offset \in 0..MaxRecordIndex : IndexReadAtCall(offset)
    \/ \E offset \in 0..MaxRecordIndex, size \in 0..MaxRecordIndex :
          LogReadAtCall(offset, size)
    \/ Reopen

UnitSpec == UnitInit /\ [][UnitNext]_vars

\* ---------------------------------------------------------------------------
\* one Segment used through its own interface, as the tests of mod.rs do

\* Segment::read_at(offset)
SegmentReadAtCall(offset) ==
    /\ LET r == SegmentReadAt(segments[1], offset)
       IN  last' = [NoCall EXCEPT !.op = "segment_read_at", !.rec = offset, !.ok = r.ok,
                                  !.val = r.val, !.err = r.err]
    /\ UNCHANGED <<segments, segment_size, index_size, current_segment, written, scan,
                   reopened>>

SegmentNext ==
    \/ \E buffer_size \in 0..(MaxRecordIndex + 2) : SegmentFitCall(buffer_size)
    \/ \E buffer \in UnitPayloads : SegmentWriteCall(buffer)
    \/ \E offset \in 0..MaxRecordIndex : SegmentReadAtCall(offset)
    \/ Reopen

SegmentSpec == UnitInit /\ [][SegmentNext]_vars

\* ---------------------------------------------------------------------------
\* a CommitLog written to and then walked with the Record helpers of the
\* Reader, as reader.rs' test_record_after does: the Record under the walk is
\* (scan.i, scan.j), scan.helpers the helpers applied so far

\* index_size arguments: two and three entries, with a remainder
ReaderIndexSizes == {2 * ENTRY_SIZE + 5, 3 * ENTRY_SIZE + 5}
\* payloads written before the walk
ReaderPayloads == {<<>>, <<1>>}

ReaderInit ==
    \E seg_size \in SegmentSizes, idx_size \in ReaderIndexSizes :
        LET c == CommitLogNew(seg_size, idx_size)
        IN  /\ segments = c.segments
            /\ segment_size = c.segment_size
            /\ index_size = c.index_size
            /\ current_segment = c.current_segment
            /\ written = <<>>
            /\ last = NoCall
            /\ scan = NoScan
            /\ reopened = FALSE

\* `let record = Record { current_offset: 0, segment_index: 0 };`
StartReaderWalk ==
    /\ scan.mode = "none"
    /\ scan' = [NoScan EXCEPT !.mode = "reader"]
    /\ last' = [NoCall EXCEPT !.op = "record"]
    /\ UNCHANGED <<segments, segment_size, index_size, current_segment, written, reopened>>

\* the Record under the walk replaced by `record`, the result of `helper`
WalkTo(helper, offset, record) ==
    /\ scan.mode = "reader"
    /\ Len(scan.helpers) <= MaxRecordIndex
    /\ scan' = [scan EXCEPT !.i = record.segment_index, !.j = record.current_offset,
                            !.helpers = Append(scan.helpers, helper)]
    /\ last' = [NoCall EXCEPT !.op = helper, !.seg = scan.i, !.rec = scan.j, !.num = offset]
    /\ UNCHANGED <<segments, segment_size, index_size, current_segment, written, reopened>>

\* Reader::record_after(&record, offset)
RecordAfterStep(offset) ==
    WalkTo("record_after", offset, ReaderRecordAfter(Record(scan.i, scan.j), offset))

\* Reader::next(&record)
NextStep == WalkTo("next", 1, ReaderNext(Record(scan.i, scan.j)))

\* Reader::next_segment(&record)
NextSegmentStep == WalkTo("next_segment", 0, ReaderNextSegment(Record(scan.i, scan.j)))

ReaderWalkNext ==
    \/ \E buffer \in ReaderPayloads : Write(buffer)
    \/ StartReaderWalk
    \/ \E offset \in 0..MaxRecordIndex : RecordAfterStep(offset)
    \/ NextStep
    \/ NextSegmentStep

ReaderSpec == ReaderInit /\ [][ReaderWalkNext]_vars

\* ---------------------------------------------------------------------------
\* a CommitLog whose system calls may fail: construction and every rotation
\* meet at most one failing call; after a panic the handle is gone

\* the calls on a Log or Index file
FileCalls ==
    {"log_open", "log_set_len", "log_map", "index_open", "index_set_len", "index_map"}

\* payloads written: one of each length up to MaxPayloadLen
FaultPayloads == {[i \in 1..n |-> 1] : n \in 0..MaxPayloadLen}

\* CommitLog::new(dir, seg_size, idx_size), the system call `os` failing
FaultInit ==
    \E seg_size \in SegmentSizes, idx_size \in IndexSizes,
       os \in {"none", "create_dir"} \cup FileCalls :
        LET c == CommitLogNewOs(seg_size, idx_size, os)
        IN  /\ segments = c.self.segments
            /\ segment_size = c.self.segment_size
            /\ index_size = c.self.index_size
            /\ current_segment = c.self.current_segment
            /\ written = <<>>
            /\ last = [NoCall EXCEPT !.ok = (c.outcome = "ok"), !.err = c.err, !.os = os,
                                     !.outcome = c.outcome, !.created = c.created]
            /\ scan = NoScan
            /\ reopened = FALSE

\* CommitLog::write(buffer), the system call `os` failing if it is made
WriteOs(buffer, os) ==
    /\ last.outcome # "panic"
    /\ Len(segments) >= 1
    /\ Len(written) < MaxWrites
    /\ LET r == CommitLogWriteOs(Self, buffer, os)
       IN  /\ segments' = r.self.segments
           /\ segment_size' = r.self.segment_size
           /\ index_size' = r.self.index_size
           /\ current_segment' = r.self.current_segment
           /\ written' = IF r.outcome = "ok"
                         THEN Append(written,
                                     [payload |-> buffer,
                                      segment |-> Len(r.self.segments) - 1,
                                      record |-> RecordsIn(written, Len(r.self.segments) - 1)])
                         ELSE written
           /\ last' = [NoCall EXCEPT !.op = "write", !.arg = buffer, !.ok = (r.outcome = "ok"),
                                     !.n = r.n, !.err = r.err, !.os = os,
                                     !.outcome = r.outcome, !.created = r.created,
                                     !.pre_len = Len(segments),
                                     !.pre_fit = SegmentFit(segments[Len(segments)],
                                                            Len(buffer))]
    /\ UNCHANGED <<scan, reopened>>

FaultNext ==
    \E buffer \in FaultPayloads, os \in OsCalls : WriteOs(buffer, os)

FaultSpec == FaultInit /\ [][FaultNext]_vars

\* properties

Ok(bytes) == [ok |-> TRUE, val |-> bytes, err |-> ""]

WrittenPayloads == [k \in 1..Len(written) |-> written[k].payload]

\* the k-th (0-based) 20-byte block of an Index mapping, decoded
LiveEntry(index, k) ==
    LET block == Slice(index.mmap, k * ENTRY_SIZE, (k + 1) * ENTRY_SIZE)
        o == ParseUsize(SubSeq(block, 1, 10))
        z == ParseUsize(SubSeq(block, 11, 20))
    IN  [ok |-> o.ok /\ z.ok, offset |-> o.val, size |-> z.val]

\* sum of the sizes of entries 0..k-1
RECURSIVE SumSizes(_, _)
SumSizes(index, k) ==
    IF k = 0 THEN 0 ELSE SumSizes(index, k - 1) + LiveEntry(index, k - 1).size

\* C1: every successful write is read back, byte for byte, at the address
\* (segment, record) it got, in every later state.
C1_RoundTrip ==
    \A k \in 1..Len(written) :
        CommitLogReadAt(Self, written[k].segment, written[k].record) = Ok(written[k].payload)

\* C2: the scan of the integration test (stop on SegmentUnavailable, next
\* segment on any other error) yields the written payloads, once each, in
\* write order.
C2_ScanEqualsWriteStream ==
    (scan.mode = "consistency" /\ scan.done) => scan.out = WrittenPayloads

\* C3: a write of at most segment_size bytes that the active Segment does not
\* fit adds exactly one segment, returns len(p) and is readable at
\* (len(segments)-1, 0); one that fits leaves the number of segments alone and
\* is appended as the next record of the active Segment.
C3_RotationBoundary ==
    (last.op = "write" /\ Len(last.arg) <= segment_size) =>
        LET active == segments[Len(segments)]
            w == written[Len(written)]
        IN  /\ last.ok /\ last.n = Len(last.arg)
            /\ w.payload = last.arg
            /\ IF ~last.pre_fit
               THEN /\ Len(segments) = last.pre_len + 1
                    /\ CommitLogReadAt(Self, Len(segments) - 1, 0) = Ok(last.arg)
               ELSE /\ Len(segments) = last.pre_len
                    /\ w.segment = last.pre_len - 1
                    /\ active.index.offset = ENTRY_SIZE * (w.record + 1)
                    /\ Slice(active.log.mmap, active.log.offset - Len(last.arg),
                             active.log.offset) = last.arg

\* C4: a write of more than segment_size bytes returns BufferSizeExceeded and
\* changes no field of the CommitLog: same segments, same cursors, same bytes.
C4_OversizeRejected ==
    [][(last'.op = "write" /\ Len(last'.arg) > segment_size) =>
          /\ ~last'.ok /\ last'.err = "BufferSizeExceeded"
          /\ UNCHANGED <<segments, segment_size, index_size, current_segment, written>>]_vars

C4_Witness ==
    /\ last.op = "write" /\ Len(last.arg) > segment_size /\ ~last.ok
    /\ Len(segments) >= 2
    /\ segments[Len(segments)].log.offset > 0

\* C5: every write of at most segment_size bytes succeeds and returns len(p),
\* whatever was written before.
C5_WriteNeverFails ==
    (last.op = "write" /\ Len(last.arg) <= segment_size) =>
        (last.ok /\ last.n = Len(last.arg))

C5_Witness ==
    /\ last.op = "write" /\ last.ok /\ ~last.pre_fit
    /\ Len(last.arg) = segment_size
    /\ last.n = segment_size

\* C6: the two-strike scan of the drivers, when it stops, has its segment
\* index at or beyond len(segments).
C6_TwoStrikeStopsAtEnd ==
    (scan.mode = "two_strike" /\ scan.done) => scan.i >= Len(segments)

\* C7: read_at returns SegmentUnavailable exactly when segment_index >=
\* len(segments), and otherwise what Segment.read_at returns for that segment.
C7_ReadAtDelegates ==
    (last.op = "read_at") =>
        /\ (~last.ok /\ last.err = "SegmentUnavailable") <=> (last.seg >= Len(segments))
        /\ (last.seg < Len(segments)) =>
              LET r == SegmentReadAt(segments[last.seg + 1], last.rec)
              IN  /\ last.ok = r.ok
                  /\ last.val = r.val
                  /\ last.err = (IF r.ok THEN "" ELSE "Segment(" \o r.err \o ")")

C7_Witness ==
    /\ last.op = "read_at" /\ last.seg = Len(segments) /\ ~last.ok
    /\ Len(segments) >= 2

\* C8: in every state, in every Segment the index cursor is 20 times the
\* number of records appended to it, and the sizes of those entries add up to
\* the log cursor.
C8_IndexLogAgreement ==
    [](\A s \in 1..Len(segments) :
          LET index == segments[s].index
              n == RecordsIn(written, s - 1)
          IN  /\ index.offset = ENTRY_SIZE * n
              /\ \A k \in 0..(n - 1) : LiveEntry(index, k).ok
              /\ SumSizes(index, n) = segments[s].log.offset)

C8_Witness ==
    /\ Len(segments) >= 2
    /\ RecordsIn(written, 0) = 2
    /\ segments[1].log.offset = 2
    /\ segments[2].log.offset >= 1

\* C9: in every state, the k-th entry of a Segment has the sum of the sizes
\* before it as its offset, and ends at or before the log cursor.
C9_OffsetsArePrefixSums ==
    [](\A s \in 1..Len(segments) :
          \A k \in 0..(RecordsIn(written, s - 1) - 1) :
              LET e == LiveEntry(segments[s].index, k)
              IN  /\ e.ok
                  /\ e.offset = SumSizes(segments[s].index, k)
                  /\ e.offset + e.size <= segments[s].log.offset)

C9_Witness ==
    /\ RecordsIn(written, 0) = 2
    /\ LiveEntry(segments[1].index, 1).offset = 1
    /\ LiveEntry(segments[1].index, 1).size = 1

\* C10: the stored current_segment is len(segments) - 1 in every state.
C10_ActiveIndexTracksTail ==
    current_segment = Len(segments) - 1

\* C11: segments[i] was opened with base offset i: the Segment, its Log and
\* its Index all carry the position in the list.
C11_BaseOffsetsArePositions ==
    \A s \in 1..Len(segments) :
        /\ segments[s].offset = s - 1
        /\ segments[s].log.base_offset = s - 1
        /\ segments[s].index.base_offset = s - 1

C11_Witness ==
    /\ Len(segments) = 3
    /\ segments[3].offset = 2

\* C12: no step changes a Segment that is not the last of the list, and the
\* list only grows, every Segment keeping its position.
C12_ClosedSegmentsFrozen ==
    [][/\ Len(segments') >= Len(segments)
       /\ \A s \in 1..Len(segments) :
             /\ segments'[s].offset = segments[s].offset
             /\ (s < Len(segments)) => (segments'[s] = segments[s])]_vars

C12_Witness ==
    /\ Len(segments) = 2
    /\ last.op = "write" /\ last.ok /\ last.pre_len = 2
    /\ segments[1].log.offset > 0
    /\ segments[2].index.offset = 2 * ENTRY_SIZE

\* C13: a write the active Log has room for but the active Index has not, or
\* the other way round, rotates: the payload is record 0 of the new Segment and
\* the old Segment is as it was.
C13_EitherFileFullRotates ==
    [][LET a == segments[Len(segments)]
           n == Len(last'.arg)
           log_full == ~LogFit(a.log, n)
           index_full == ~IndexFit(a.index, 1)
       IN  (/\ last'.op = "write"
            /\ n <= segment_size
            /\ (log_full /\ ~index_full) \/ (index_full /\ ~log_full)) =>
               /\ Len(segments') = Len(segments) + 1
               /\ segments'[Len(segments)] = a
               /\ last'.ok
               /\ written' = Append(written, [payload |-> last'.arg,
                                              segment |-> Len(segments), record |-> 0])
               /\ segments'[Len(segments')].index.offset = ENTRY_SIZE
               /\ segments'[Len(segments')].log.offset = n
               /\ Slice(segments'[Len(segments')].log.mmap, 0, n) = last'.arg]_vars

C13_Witness ==
    /\ last.op = "write" /\ last.ok /\ Len(last.arg) = 1
    /\ Len(segments) = last.pre_len + 1
    /\ LogFit(segments[last.pre_len].log, 1)
    /\ ~IndexFit(segments[last.pre_len].index, 1)
    /\ written[Len(written)].record = 0

\* C14: a zero-length write succeeds with 0, leaves the entry (log cursor, 0)
\* in the Index and the Log cursor where it was; its address reads back as an
\* empty view and the records written after it read back as written.
C14_EmptyWrites ==
    /\ (last.op = "write" /\ last.arg = <<>>) =>
          LET w == written[Len(written)]
              active == segments[Len(segments)]
              e == LiveEntry(active.index, w.record)
          IN  /\ last.ok /\ last.n = 0
              /\ w.payload = <<>>
              /\ active.index.offset = ENTRY_SIZE * (w.record + 1)
              /\ e.ok /\ e.size = 0 /\ e.offset = active.log.offset
    /\ \A k \in 1..Len(written) :
          (written[k].payload = <<>>) =>
              \A j \in k..Len(written) :
                  CommitLogReadAt(Self, written[j].segment, written[j].record)
                      = Ok(written[j].payload)

\* C15: construction leaves exactly one Segment, with base offset 0 and both
\* cursors at 0, and the list is never empty afterwards.
C15_ConstructionEstablishesSegment0 ==
    /\ Len(segments) >= 1
    /\ (last.op = "new") =>
          /\ Len(segments) = 1
          /\ segments[1].offset = 0
          /\ segments[1].log.offset = 0
          /\ segments[1].index.offset = 0

C15_Witness ==
    /\ last.op = "new"
    /\ Len(segments) = 1
    /\ Len(segments[1].log.mmap) = 2
    /\ Len(segments[1].index.mmap) = 2 * ENTRY_SIZE + 5

\* C16: Log::fit(n) answers true exactly when max_size - cursor >= n, equality
\* included.
C16_LogFitBoundary ==
    (last.op = "log_fit") =>
        (last.ok <=> (segments[1].log.max_size - segments[1].log.offset >= last.num))

C16_Witness ==
    /\ last.op = "log_fit" /\ last.ok
    /\ segments[1].log.offset = 1
    /\ last.num = 2
    /\ segments[1].log.max_size = 3

\* C17: Index::fit(n) answers true exactly when max_size - cursor >= 20 n; of
\* the Index::write calls since the open the first floor(max_size / 20) return
\* 20 and advance the cursor by 20, every later one returns NoSpaceLeft and
\* leaves the Index as it was.
C17_IndexCapacity ==
    [][LET index == segments[1].index
       IN  /\ (last'.op = "index_fit") =>
                 (last'.ok <=> (index.max_size - index.offset >= ENTRY_SIZE * last'.num))
           /\ (last'.op = "index_write") =>
                 IF Len(written) < index.max_size \div ENTRY_SIZE
                 THEN /\ last'.ok /\ last'.n = ENTRY_SIZE
                      /\ segments'[1].index.offset = index.offset + ENTRY_SIZE
                 ELSE /\ ~last'.ok /\ last'.err = "NoSpaceLeft"
                      /\ segments'[1].index = index]_vars

C17_Witness ==
    /\ last.op = "index_write" /\ ~last.ok /\ last.err = "NoSpaceLeft"
    /\ segments[1].index.max_size = 2 * ENTRY_SIZE + 5
    /\ Len(written) = 2
    /\ segments[1].index.offset = 2 * ENTRY_SIZE

\* C18: Index::read_at(k) is InvalidIndex exactly when (k+1)*20 exceeds the
\* length of the mapping, so every entry Index::write accepted can be read.
C18_IndexReadAtRange ==
    /\ (last.op = "index_read_at") =>
          ((~last.ok /\ last.err = "InvalidIndex")
              <=> ((last.num + 1) * ENTRY_SIZE > Len(segments[1].index.mmap)))
    /\ \A k \in 0..(Len(written) - 1) : IndexReadAt(segments[1].index, k).ok

\* "00015212300091028317"
ExampleEntryBytes == <<48, 48, 48, 49, 53, 50, 49, 50, 51, 48, 48, 48, 57, 49, 48, 50, 56, 51, 49, 55>>

\* C19: the k-th entry written is stored as ten zero padded decimal digits of
\* its offset followed by ten of its size, and Index::read_at(k) returns it,
\* whatever was written before or after.
C19_EntryRoundTrip ==
    \A k \in 1..Len(written) :
        LET index == segments[1].index
            block == Slice(index.mmap, (k - 1) * ENTRY_SIZE, k * ENTRY_SIZE)
            r == IndexReadAt(index, k - 1)
        IN  /\ \A i \in 1..ENTRY_SIZE : IsDigit(block[i])
            /\ DigitsValue(SubSeq(block, 1, 10)) = written[k].offset
            /\ DigitsValue(SubSeq(block, 11, 20)) = written[k].size
            /\ (written[k] = Entry(1521230, 91028317)) => (block = ExampleEntryBytes)
            /\ r.ok /\ r.entry = written[k]

\* the layout of the Index file of the Segment under test
IndexLayout ==
    LET index == segments[1].index
    IN  /\ Len(index.mmap) = index.max_size
        /\ index.offset % ENTRY_SIZE = 0
        /\ index.offset <= Len(index.mmap)
        /\ \A i \in 1..Len(index.mmap) :
              IF i <= index.offset THEN IsDigit(index.mmap[i]) ELSE index.mmap[i] = 0

C22_HorizonIsFirstRecord ==
    (last.op = "read") =>
        IF last.position = Horizon
        THEN /\ last.rec = 0
             /\ (written # <<>>) => (last.ok /\ last.val = written[1].payload)
        ELSE last.rec = last.position.offset

\* the bytes of `after` from position n on (0-based) are those of `before`
SameFrom(before, after, n) ==
    /\ Len(after) = Len(before)
    /\ \A i \in (n + 1)..Len(before) : after[i] = before[i]

C23_PaddingReadsAsZeroEntry ==
    (/\ last.op = "index_read_at" /\ ~reopened
     /\ last.num >= Len(written)
     /\ (last.num + 1) * ENTRY_SIZE <= Len(segments[1].index.mmap)) =>
        (last.ok /\ last.entry = Entry(0, 0))

\* C23 amended: such a read never returns an entry; when the block ends
\* before the end of the mapping the error is the parse error of the zero
\* bytes.
C23_PaddingReadsAsError ==
    (/\ last.op = "index_read_at" /\ ~reopened
     /\ last.num >= Len(written)
     /\ (last.num + 1) * ENTRY_SIZE <= Len(segments[1].index.mmap)) =>
        /\ ~last.ok
        /\ ((last.num + 1) * ENTRY_SIZE < Len(segments[1].index.mmap)) => (last.err = "Num")

\* one entry written, the second block of a 45 byte Index read
C23_Witness ==
    /\ last.op = "index_read_at" /\ ~reopened
    /\ Len(written) = 1 /\ last.num = 1
    /\ Len(segments[1].index.mmap) = 2 * ENTRY_SIZE + 5
    /\ ~last.ok /\ last.err = "Num"

\* C24: read_at(s, r) on an existing segment returns Ok exactly when r is
\* less than the number of records written to segment s.
C24_ReadsBoundedByRecordCount ==
    (last.op = "read_at" /\ last.seg < Len(segments)) =>
        (last.ok <=> (last.rec < RecordsIn(written, last.seg)))

\* C25: a Segment.write that finds the Index without room for one more entry
\* returns the Index's NoSpaceLeft and leaves the Segment as it was: both
\* cursors and both mappings.
C25_IndexFullAbortsCleanly ==
    [][LET index == segments[1].index
       IN  (last'.op = "segment_write" /\ index.max_size - index.offset < ENTRY_SIZE) =>
              /\ ~last'.ok /\ last'.err = "Index(NoSpaceLeft)"
              /\ segments'[1].log.offset = segments[1].log.offset
              /\ segments'[1].log.mmap = segments[1].log.mmap
              /\ segments'[1].index.offset = index.offset
              /\ segments'[1].index.mmap = index.mmap]_vars

\* the Index is full after one record, the Log had room for the second
C25_Witness ==
    /\ last.op = "segment_write" /\ last.err = "Index(NoSpaceLeft)"
    /\ last.arg = <<1>>
    /\ segments[1].index.offset = ENTRY_SIZE
    /\ segments[1].log.max_size = 3 /\ segments[1].log.offset = 1

\* C26: a Segment.write whose entry the Index accepts and whose payload the
\* Log has no room for returns the Log's error, leaves the Log as it was and
\* the Index one entry longer: the new entry names the Log cursor and the
\* payload length, a range the Log does not hold.
C26_DanglingEntry ==
    [][LET index == segments[1].index
           log == segments[1].log
           n == Len(last'.arg)
       IN  (/\ last'.op = "segment_write"
            /\ index.max_size - index.offset >= ENTRY_SIZE
            /\ log.max_size - log.offset < n) =>
              /\ ~last'.ok /\ last'.err = "Log(NoSpaceLeft)"
              /\ segments'[1].log = log
              /\ segments'[1].index.offset = index.offset + ENTRY_SIZE
              /\ LiveEntry(segments'[1].index, index.offset \div ENTRY_SIZE)
                    = [ok |-> TRUE, offset |-> log.offset, size |-> n]
              /\ SameFrom(index.mmap, segments'[1].index.mmap, index.offset + ENTRY_SIZE)
              /\ Slice(segments'[1].index.mmap, 0, index.offset)
                    = Slice(index.mmap, 0, index.offset)
              /\ Len(written') = Len(written) + 1]_vars

\* one record written, then one the Log cannot take: two entries, one payload
C26_Witness ==
    /\ ~reopened
    /\ last.op = "segment_write" /\ last.err = "Log(NoSpaceLeft)"
    /\ segments[1].index.offset = 2 * ENTRY_SIZE
    /\ segments[1].log.offset = 1
    /\ Len(written) = 2 /\ written[2] = Entry(1, 3)

\* C27: Segment.fit(n) is true exactly when the Log has n bytes left and the
\* Index has 20; a Segment whose Index is smaller than 20 bytes fits nothing.
C27_SegmentFitIsConjunction ==
    (last.op = "segment_fit") =>
        LET index == segments[1].index
            log == segments[1].log
        IN  /\ last.ok <=> (/\ log.max_size - log.offset >= last.num
                             /\ index.max_size - index.offset >= ENTRY_SIZE)
            /\ (index.max_size < ENTRY_SIZE) => ~last.ok

\* a 10 byte Index: not even n = 0 fits
C27_Witness ==
    /\ last.op = "segment_fit" /\ ~last.ok /\ last.num = 0
    /\ segments[1].index.max_size = ENTRY_SIZE \div 2

\* C28: a Log.write of a buffer that fits copies it to [cursor, cursor+len),
\* changes no other byte, advances the cursor by len and returns len; one that
\* does not fit returns NoSpaceLeft and changes neither cursor nor bytes.
C28_LogWriteSemantics ==
    [][LET log == segments[1].log
           n == Len(last'.arg)
       IN  (last'.op = "log_write") =>
              IF log.max_size - log.offset >= n
              THEN /\ last'.ok /\ last'.n = n
                   /\ segments'[1].log.offset = log.offset + n
                   /\ Slice(segments'[1].log.mmap, log.offset, log.offset + n) = last'.arg
                   /\ Slice(segments'[1].log.mmap, 0, log.offset)
                         = Slice(log.mmap, 0, log.offset)
                   /\ SameFrom(log.mmap, segments'[1].log.mmap, log.offset + n)
              ELSE /\ ~last'.ok /\ last'.err = "NoSpaceLeft"
                   /\ segments'[1].log = log]_vars

\* a second write, in the middle of a 3 byte Log
C28_Witness ==
    /\ ~reopened
    /\ last.op = "log_write" /\ last.ok /\ last.arg = <<0, 1>> /\ last.n = 2
    /\ segments[1].log.offset = 3
    /\ segments[1].log.mmap = <<1, 0, 1>>

\* C29: Log.read_at(offset, size) is InvalidIndex exactly when offset + size
\* exceeds max_size, and otherwise returns the bytes [offset, offset+size) of
\* the mapping, those beyond the write cursor included.
C29_LogReadAtRange ==
    (last.op = "log_read_at") =>
        LET log == segments[1].log
        IN  IF last.rec + last.num > log.max_size
            THEN ~last.ok /\ last.err = "InvalidIndex"
            ELSE /\ last.ok
                 /\ Len(last.val) = last.num
                 /\ \A i \in 1..last.num : last.val[i] = log.mmap[last.rec + i]

\* a read that starts in the written part and ends in the unwritten one
C29_Witness ==
    /\ ~reopened
    /\ last.op = "log_read_at" /\ last.ok
    /\ segments[1].log.max_size = 3 /\ segments[1].log.offset = 1
    /\ last.rec = 0 /\ last.num = 2 /\ last.val = <<1, 0>>

\* the layout of the Log file of the Segment under test
LogLayout ==
    LET log == segments[1].log
    IN  /\ Len(log.mmap) = log.max_size
        /\ log.offset <= log.max_size
        /\ \A i \in (log.offset + 1)..Len(log.mmap) : log.mmap[i] = 0

\* the live bytes of the Log are the payloads written since it was opened,
\* one after the other: a write that succeeds appends exactly its buffer, an
\* open starts from nothing, no other call changes them
LogAppendStep ==
    LET log == segments[1].log
        live == Slice(log.mmap, 0, log.offset)
        live_after == Slice(segments'[1].log.mmap, 0, segments'[1].log.offset)
    IN  IF last'.op = "log_write" /\ last'.ok
        THEN live_after = live \o last'.arg
        ELSE IF last'.op = "reopen"
        THEN live_after = <<>>
        ELSE live_after = live

C33_NoEmptySegmentBehindTail ==
    /\ \A s \in 2..Len(segments) :
          /\ segments[s].index.offset >= ENTRY_SIZE
          /\ RecordsIn(written, s - 1) >= 1
    /\ (segments[1].index.offset = 0) <=> (written = <<>>)
    /\ (Len(written) >= 1) => (Len(segments) <= Len(written))

\* three writes of segment_size bytes: three segments of one record
C33_Witness ==
    /\ Len(written) = 3 /\ Len(segments) = 3
    /\ \A s \in 1..3 : segments[s].index.offset = ENTRY_SIZE

\* C36: for every Record, Reader.read returns InvalidPosition exactly when
\* its segment_index is at or beyond len(segments), where CommitLog.read_at
\* returns SegmentUnavailable; for every other Record the two return the same
\* bytes or fail with the same Segment error.  The comparison over every
\* Record is made in the state the construction or a write leaves: the reads
\* in between change nothing it depends on (C35).
C36_ReaderAgreesWithReadAt ==
    /\ (last.op \in {"new", "write"}) =>
          \A segment_index \in 0..(Len(segments) + 1), offset \in 0..(MaxRecordIndex + 1) :
              LET r == ReaderRead(Self, Record(segment_index, offset))
                  c == CommitLogReadAt(Self, segment_index, offset)
              IN  /\ (~r.ok /\ r.err = "InvalidPosition") <=> (segment_index >= Len(segments))
                  /\ (segment_index >= Len(segments)) =>
                         (~c.ok /\ c.err = "SegmentUnavailable")
                  /\ (segment_index < Len(segments)) => (r = c)
    /\ (last.op = "read") =>
          LET c == CommitLogReadAt(Self, last.seg, last.rec)
          IN  /\ last.ok = c.ok /\ last.val = c.val
              /\ (last.seg < Len(segments)) => (last.err = c.err)

\* the Record of Position::Horizon read through the Reader: the second record
C36_Witness ==
    /\ last.op = "read" /\ last.ok
    /\ last.seg = 0 /\ last.rec = 1
    /\ Len(written) >= 2 /\ last.val = written[2].payload
    /\ Len(segments) >= 2

\* C35: a step that reads (read_at, read followed by Reader.read, a step of
\* either read loop) leaves the segments list, every cursor and every byte as
\* they were, whether the read succeeded or not; the flush of a rotation
\* leaves the Segment it flushed as it was.
C35_ReadsAndFlushesArePure ==
    [][/\ (last'.op \in {"read_at", "read", "scan"} \/ scan' # scan) =>
             UNCHANGED <<segments, segment_size, index_size, current_segment, written>>
       /\ (last'.op = "write" /\ Len(segments') > Len(segments)) =>
             (segments'[Len(segments)] = segments[Len(segments)])]_vars

\* a read of the record a rotating write put in the second Segment
C35_Witness ==
    /\ last.op = "read_at" /\ last.ok /\ last.seg = 1 /\ last.rec = 0
    /\ Len(segments) = 2
    /\ last.val = written[Len(written)].payload
    /\ segments[1].log.offset = segment_size

\* the cursors of the Segment under test are within their files
CursorsInBounds ==
    LET log == segments[1].log
        index == segments[1].index
    IN  /\ 0 <= log.offset /\ log.offset <= log.max_size
        /\ log.offset <= Len(log.mmap)
        /\ 0 <= index.offset /\ index.offset <= index.max_size
        /\ index.offset <= Len(index.mmap)
        /\ index.offset % ENTRY_SIZE = 0

\* C34: the Log cursor stays within 0..max_size, the Index cursor too and is
\* a multiple of 20, and no call on a Log or an Index moves its cursor back
\* (an open makes a new Log and a new Index, whose cursors start at 0).
C34_CursorBounds ==
    [][/\ CursorsInBounds /\ CursorsInBounds'
       /\ (last'.op # "reopen") =>
             /\ segments'[1].log.offset >= segments[1].log.offset
             /\ segments'[1].index.offset >= segments[1].index.offset
             /\ Len(segments'[1].log.mmap) = Len(segments[1].log.mmap)
             /\ Len(segments'[1].index.mmap) = Len(segments[1].index.mmap)]_vars

\* both files full, one more write to the Log turned away
C34_Witness ==
    /\ ~reopened
    /\ last.op = "log_write" /\ ~last.ok /\ last.arg = <<1>>
    /\ segments[1].log.offset = 3 /\ segments[1].log.max_size = 3
    /\ segments[1].index.offset = 2 * ENTRY_SIZE
    /\ segments[1].index.max_size = 2 * ENTRY_SIZE + 5

\* C37: record_after(r, n) keeps the segment_index and adds n to the
\* current_offset, next(r) is record_after(r, 1), next_segment(r) is
\* (segment_index + 1, 0); k times next from (0, 0) gives (0, k), the address
\* the k-th record of Segment 0 was written at, whose index entry names the
\* bytes of its payload.
C37_RecordAddressHelpers ==
    (scan.mode = "reader") =>
        /\ (last.op = "record_after") =>
              (scan.i = last.seg /\ scan.j = last.rec + last.num)
        /\ (last.op = "next") =>
              /\ scan.i = last.seg /\ scan.j = last.rec + 1
              /\ Record(scan.i, scan.j) = ReaderRecordAfter(Record(last.seg, last.rec), 1)
        /\ (last.op = "next_segment") =>
              (scan.i = last.seg + 1 /\ scan.j = 0)
        /\ (\A h \in 1..Len(scan.helpers) : scan.helpers[h] = "next") =>
              LET k == Len(scan.helpers)
              IN  /\ scan.i = 0 /\ scan.j = k
                  /\ (RecordsIn(written, 0) > k) =>
                        \E w \in 1..Len(written) :
                            LET e == LiveEntry(segments[1].index, k)
                            IN  /\ written[w].segment = 0 /\ written[w].record = k
                                /\ Cardinality({v \in 1..(w - 1) : written[v].segment = 0}) = k
                                /\ e.ok
                                /\ Slice(segments[1].log.mmap, e.offset, e.offset + e.size)
                                      = written[w].payload

\* three records in Segment 0, next applied twice: the third record
C37_Witness ==
    /\ scan.mode = "reader" /\ scan.helpers = <<"next", "next">>
    /\ scan.i = 0 /\ scan.j = 2
    /\ RecordsIn(written, 0) = 3
    /\ written[3].payload = <<1>>

\* the last write had to rotate: its payload is within segment_size and the
\* Segment that was active did not fit it
Rotated == last.op = "write" /\ Len(last.arg) <= segment_size /\ ~last.pre_fit

\* error values that carry an io::Error
IoErrors == {"Io", "Segment(Log(Io))", "Segment(Index(Io))"}

\* C31: a rotation flushes the active Segment before it opens anything; when
\* the flush or the opening of the new Segment fails the write returns that
\* error, the segments are as they were and the payload is in no Segment;
\* otherwise the new Segment is appended with base offset len(segments).
C31_RotationOrderAndAtomicity ==
    [][(last'.op = "write" /\ Len(last'.arg) <= segment_size
          /\ ~SegmentFit(segments[Len(segments)], Len(last'.arg))) =>
             IF last'.os \in {"index_flush", "log_flush"}
             THEN /\ last'.outcome = "err" /\ last'.err \in IoErrors
                  /\ last'.created = {}
                  /\ segments' = segments /\ written' = written
             ELSE IF last'.os \in FileCalls
             THEN /\ last'.outcome = "err" /\ last'.err \in IoErrors
                  /\ segments' = segments /\ written' = written
             ELSE /\ last'.outcome = "ok"
                  /\ Len(segments') = Len(segments) + 1
                  /\ segments'[Len(segments')].offset = Len(segments)
                  /\ segments'[Len(segments)] = segments[Len(segments)]
                  /\ last'.created = {"log", "idx"}]_vars

\* C32: a failure to open, size or map a Log or Index file, in construction
\* or in a rotation, comes back as an Err value carrying the io::Error; none
\* panics.
C32_OsFailuresSurfaceAsIo ==
    ((last.op = "new" \/ Rotated) /\ last.os \in FileCalls) =>
        (last.outcome = "err" /\ last.err \in IoErrors)

====
